---------------------------- MODULE Spec2Model ----------------------------
(***************************************************************************)
(* Golden-cross pullback screener.  Five specifications share this         *)
(* module:                                                                 *)
(*   Spec      one call of scan_strategy(df);                              *)
(*   SpecMa    the rolling means of a series that grows between scans;     *)
(*   SpecLoop  the universe scan of the __main__ block;                    *)
(*   SpecApp   the dashboard server app.py with its scanner subprocesses;  *)
(*   SpecCache the local price file of one instrument under get_ohlcv and  *)
(*             collect_ohlcv.                                              *)
(* Each has its own variables; the variables of the others stay at their   *)
(* idle values.                                                            *)
(*                                                                         *)
(* Spec.  One behaviour is one call of scan_strategy(df).  The call is     *)
(* stepped one loop iteration at a time, so that the set of indices each   *)
(* search examines, and every positional read (.iloc), is part of the      *)
(* state.                                                                  *)
(*                                                                         *)
(* Numbers.  Prices and volumes are integers.  A rolling mean over a       *)
(* window w is kept exactly, as (window sum) * (W2 \div w): every window   *)
(* used (5, 20, 200) divides W2, so all means share the denominator W2     *)
(* and compare as integers.  Binary floating point rounding of the means   *)
(* is not modelled.  NaN is the value of every field of a missing row and  *)
(* of a rolling mean whose window is short or holds a NaN.                 *)
(*                                                                         *)
(* Frames.  A data frame is kept run-length encoded: `lead` identical      *)
(* leading rows (the bar `flat`) followed by the explicit `rows`.  Row     *)
(* positions are 0-based as in the source.  The rolling means of lines     *)
(* 86-89 are functions of the frame alone and the frame never changes      *)
(* during a call, so they are operators of df, not variables.              *)
(***************************************************************************)
EXTENDS Integers, Sequences, FiniteSets, TLC

VARIABLES
    df,            \* the argument of the call
    pc,            \* position inside scan_strategy
    i,             \* the loop variable of the search being run
    gc_idx, pullback_idx, signal_idx,               \* stage results
    result,        \* what the call returned
    examined,      \* indices the crossover loop has visited
    reads,         \* every position handed to .iloc so far
    stages         \* the searches that were entered

\* the indicator set of lines 85-89 and 188, as last computed
VARIABLES
    stats          \* stats[k + 1]: the rolling means at position k

\* the universe scan of the __main__ block, one scanner process
VARIABLES
    scanner        \* the process: its arguments, position, counters and stdout

\* the dashboard server, app.py
VARIABLES
    scan_state,    \* the global scan_state: one record per target
    runs           \* the run_scanner_bg threads started so far, with their
                   \* scanner process and the unread lines of its stdout

\* the local price file data/<ticker>.csv of one instrument
VARIABLES
    file,          \* the file: whether it exists, and the dates of its rows
    krx_last,      \* the last day the exchange has published
    call           \* the last call that touched the file, and what it did

scanVars == << df, pc, i, gc_idx, pullback_idx, signal_idx, result, examined,
               reads, stages >>
maVars == << stats >>
loopVars == << scanner >>
appVars == << scan_state, runs >>
cacheVars == << file, krx_last, call >>

vars == << scanVars, maVars, loopVars, appVars, cacheVars >>

\* what a step of scan_strategy leaves alone
otherThanScan == << maVars, loopVars, appVars, cacheVars >>

---------------------------------------------------------------------------
(* Program constants *)

GC_LOOKBACK == 30
PULLBACK_MIN == 3
PULLBACK_MAX == 10
\* TOUCH_MARGIN = 0.02, in percent
TOUCH_MARGIN == 2
SIGNAL_LOOKBACK == 3
\* rolling(20), rolling(200), rolling(5)
W1 == 20
W2 == 200
V0 == 5
\* len(df) < 201
MIN_BARS == 201
\* search_start = max(201, ...)
SEARCH_FLOOR == 201

\* gc_idx = None, pullback_idx = None, ... : "no index"
None == -1
\* a missing value (pd.isna)
NaN == -1

Max(a, b) == IF a >= b THEN a ELSE b
Min(a, b) == IF a <= b THEN a ELSE b
Greatest(S) == CHOOSE x \in S : \A y \in S : y <= x
Least(S) == CHOOSE x \in S : \A y \in S : x <= y

---------------------------------------------------------------------------
(* The data frame *)

\* len(df)
Len0(d) == d.lead + Len(d.rows)

\* a position .iloc accepts for a series of n rows
ValidPos(k, len) == k >= -len /\ k <= len - 1

\* the row a position names: Python counts a negative position from the end
Resolve(k, len) == IF k < 0 THEN len + k ELSE k

\* df[f].iloc[k] for a 0-based position k
Iloc(d, f, k) ==
    LET pos == Resolve(k, Len0(d))
    IN  IF pos < d.lead THEN d.flat[f] ELSE d.rows[pos - d.lead + 1][f]

\* df.index[k]: the leading rows are dated on consecutive days from flat.date
DateAt(d, k) ==
    IF k < d.lead THEN d.flat.date + k ELSE d.rows[k - d.lead + 1].date

---------------------------------------------------------------------------
(* Series.rolling(w).mean() *)

\* what a value adds to a window's sum, and to its count of missing values
IsNaN(x) == x = NaN
Addend(x) == IF IsNaN(x) THEN 0 ELSE x
Missed(x) == IF IsNaN(x) THEN 1 ELSE 0

RECURSIVE WindowSum(_, _, _, _)
\* the sum of the values of column f over positions lo..hi
WindowSum(d, f, lo, hi) ==
    IF lo > hi THEN 0
    ELSE IF hi < d.lead THEN (hi - lo + 1) * Addend(d.flat[f])
    ELSE Addend(Iloc(d, f, hi)) + WindowSum(d, f, lo, hi - 1)

RECURSIVE WindowNa(_, _, _, _)
\* the number of missing values of column f over positions lo..hi
WindowNa(d, f, lo, hi) ==
    IF lo > hi THEN 0
    ELSE IF hi < d.lead THEN (hi - lo + 1) * Missed(d.flat[f])
    ELSE Missed(Iloc(d, f, hi)) + WindowNa(d, f, lo, hi - 1)

\* a rolling mean whose window also takes in the bar after position k
RollingMean_LooksAhead(d, f, w, k) ==
    LET pos == Resolve(k, Len0(d))
        hi  == Min(pos + 1, Len0(d) - 1)
    IN  IF pos + 1 < w THEN NaN
        ELSE IF WindowNa(d, f, hi - w + 1, hi) > 0 THEN NaN
        ELSE WindowSum(d, f, hi - w + 1, hi) * (W2 \div w)

\* df[f].rolling(w).mean().iloc[k], times W2: NaN until w values exist
\* (min_periods = w) and whenever the window holds a NaN
RollingMean(d, f, w, k) ==
    LET pos == Resolve(k, Len0(d))
    IN  IF pos + 1 < w THEN NaN
        ELSE IF WindowNa(d, f, pos - w + 1, pos) > 0 THEN NaN
        ELSE WindowSum(d, f, pos - w + 1, pos) * (W2 \div w)

---------------------------------------------------------------------------
(* Input series.  Every series is a flat history followed by a short tail  *)
(* of bars drawn from a palette, optionally followed by more flat bars.    *)

\* longest enumerated tail
MaxTail == 6

\* the date of the row at position k: ascending, and never equal to k
DateOf(k) == W2 + W2 + k

Bar(o, h, l, c, v) == [open |-> o, high |-> h, low |-> l, close |-> c, volume |-> v]

\* Flat: the quiet history.  Up: a bullish bar well above it, on heavy volume.
\* Dn: a bearish bar well below it, on light volume.  Doji: a small bullish bar
\* whose low or close meets the 20-day mean when the mean has moved off 100.
\* Missing: a row without data.
Shape(kind) ==
    CASE kind = "Flat"    -> Bar(100, 100, 100, 100, 1000)
      [] kind = "Up"      -> Bar(110, 120, 110, 120, 2000)
      [] kind = "Dn"      -> Bar(90, 90, 80, 80, 500)
      [] kind = "Doji"    -> Bar(100, 103, 97, 103, 1000)
      [] kind = "Missing" -> Bar(NaN, NaN, NaN, NaN, NaN)

Kinds == {"Up", "Dn", "Doji"}

\* the frame holding `pre` flat rows, the tail, and `post` flat rows
Frame(pre, tail, post) ==
    [none |-> FALSE,
     lead |-> pre,
     flat |-> [date |-> DateOf(0)] @@ Shape("Flat"),
     rows |-> [k \in 1..(Len(tail) + post) |->
                 [date |-> DateOf(pre + k - 1)]
                 @@ Shape(IF k <= Len(tail) THEN tail[k] ELSE "Flat")]]

\* df is None
NoFrame == [Frame(0, << >>, 0) EXCEPT !.none = TRUE]

\* every tail of 1..maxLen bars, at most one of them a missing row
Tails(maxLen) ==
    LET full == UNION {[1..k -> Kinds] : k \in 1..maxLen}
    IN  full \cup {[t EXCEPT ![m] = "Missing"] : t \in full, m \in 1..maxLen}

\* a frame whose last row carries the date of the row before it ("dup"), or
\* whose last two rows have exchanged their dates ("swap"); the frame has at
\* least two explicit rows
Misdated(d, how) ==
    LET m == Len(d.rows)
    IN  IF how = "dup"
        THEN [d EXCEPT !.rows[m].date = d.rows[m - 1].date]
        ELSE [d EXCEPT !.rows[m].date = d.rows[m - 1].date,
                       !.rows[m - 1].date = d.rows[m].date]

\* 210 rows: crossover at 200, touch at 204, bullish breakout at 206
EndToEndTail == << "Up", "Dn", "Dn", "Dn", "Doji", "Dn", "Up", "Dn", "Dn", "Dn" >>

Inputs ==
    {NoFrame}
    \cup {Frame(pre, tail, 0) : pre \in {W2, W2 + 1}, tail \in Tails(MaxTail)}
    \cup {Frame(pre, tail, 0) : pre \in {0, W2 - 2, W2 - 1},
                                tail \in {<< >>} \cup Tails(1)}
    \cup {Frame(pre, << "Up" >>, post) :
              pre \in {W2, W2 + 1},
              post \in {GC_LOOKBACK - 1, GC_LOOKBACK, GC_LOOKBACK + 1}}
    \cup {Frame(W2, EndToEndTail, 0)}
    \cup {Misdated(Frame(W2 + 1, tail, 0), how) :
              tail \in [1..MaxTail -> {"Up", "Doji"}], how \in {"dup", "swap"}}

---------------------------------------------------------------------------
(* scan_strategy *)

NoPullback == [gc_date |-> None, pullback_date |-> None, pullback_low |-> None,
               signal_date |-> None, signal_type |-> "-", signal_tag |-> None]

\* kind: "running" until the call returns; then "None", "dict" or "raised"
Pending == [kind |-> "running", close |-> None, price_gc |-> None,
            pullback |-> NoPullback, vol_gc |-> None, error |-> "-"]

ReturnNone == [Pending EXCEPT !.kind = "None"]

Raise(e) == [Pending EXCEPT !.kind = "raised", !.error = e]

\* no indicator set has been computed
MaIdle == stats = << >>

\* no scanner process exists
NoScanner == [lpc |-> "none"]
LoopIdle == scanner = NoScanner

\* the server is not part of the run
AppIdle == scan_state = << >> /\ runs = << >>

\* the price file is not part of the run
NoCall == [fn |-> "none"]
CacheIdle == file = << >> /\ krx_last = None /\ call = NoCall

Init ==
    /\ df \in Inputs
    /\ pc = "enter"
    /\ i = None
    /\ gc_idx = None /\ pullback_idx = None /\ signal_idx = None
    /\ result = Pending
    /\ examined = {}
    /\ reads = {}
    /\ stages = {}
    /\ MaIdle
    /\ LoopIdle
    /\ AppIdle
    /\ CacheIdle

\* n = len(df)
n == Len0(df)

\* lines 86-89: the rolling means, at position k
price_ma20(d, k)  == RollingMean(d, "close", W1, k)
price_ma200(d, k) == RollingMean(d, "close", W2, k)
vol_ma20(d, k)    == RollingMean(d, "volume", W1, k)
vol_ma200(d, k)   == RollingMean(d, "volume", W2, k)

\* a length check that also turns away a series of exactly 201 bars
TooShort_Inclusive(d) == d.none \/ Len0(d) <= MIN_BARS

\* lines 76-77: the length check
TooShort(d) == d.none \/ Len0(d) < MIN_BARS

\* line 96
SearchStart(len) == Max(SEARCH_FLOOR, len - GC_LOOKBACK - 1)

\* lines 76-96: the length check and the start of the crossover search
Enter ==
    /\ pc = "enter"
    /\ IF TooShort(df)
       THEN /\ pc' = "done"
            /\ result' = ReturnNone
            /\ UNCHANGED << i, stages >>
       ELSE /\ i' = SearchStart(n)
            /\ pc' = "crossover"
            /\ stages' = {"crossover"}
            /\ UNCHANGED result
    /\ UNCHANGED << df, gc_idx, pullback_idx, signal_idx, examined, reads >>
    /\ UNCHANGED otherThanScan

\* lines 99-114: the test at one index of the crossover loop
IsGoldenCross(k) ==
    LET prev_p20  == price_ma20(df, k - 1)
        curr_p20  == price_ma20(df, k)
        prev_p200 == price_ma200(df, k - 1)
        curr_p200 == price_ma200(df, k)
        curr_v20  == vol_ma20(df, k)
        curr_v200 == vol_ma200(df, k)
    IN  IF \E x \in {prev_p20, curr_p20, prev_p200, curr_p200, curr_v20, curr_v200} :
               IsNaN(x)
        THEN FALSE
        ELSE /\ prev_p20 <= prev_p200 /\ curr_p20 > curr_p200
             /\ curr_v20 > curr_v200

\* line 98: range(search_start, n)
CrossoverContinues(k, len) == k < len

\* a search that keeps its first match
CrossoverCandidate_First(old, k) == IF old = None THEN k ELSE old

\* lines 114-117: a later match overwrites an earlier one
CrossoverCandidate(old, k) == k

\* lines 98-117: one iteration of the crossover loop
CrossoverStep ==
    /\ pc = "crossover"
    /\ CrossoverContinues(i, n)
    /\ examined' = examined \cup {i}
    /\ reads' = reads \cup {i - 1, i}
    /\ IF ~ValidPos(i - 1, n) \/ ~ValidPos(i, n)
       THEN /\ pc' = "done"
            /\ result' = Raise("IndexError")
            /\ UNCHANGED << i, gc_idx >>
       ELSE /\ gc_idx' = IF IsGoldenCross(i) THEN CrossoverCandidate(gc_idx, i)
                         ELSE gc_idx
            /\ i' = i + 1
            /\ UNCHANGED << pc, result >>
    /\ UNCHANGED << df, pullback_idx, signal_idx, stages >>
    /\ UNCHANGED otherThanScan

\* a call that goes on to the pullback search without a crossover
StopsWithoutCrossover_Never(g) == FALSE

\* lines 119-120: without a crossover the call returns None at once
StopsWithoutCrossover(g) == g = None

\* lines 119-128: end of the crossover loop
CrossoverExit ==
    /\ pc = "crossover"
    /\ ~CrossoverContinues(i, n)
    /\ IF StopsWithoutCrossover(gc_idx)
       THEN /\ pc' = "done"
            /\ result' = ReturnNone
            /\ UNCHANGED << i, stages >>
       ELSE /\ pc' = "pullback"
            /\ stages' = stages \cup {"pullback"}
            /\ i' = IF gc_idx = None THEN None ELSE gc_idx + PULLBACK_MIN
            /\ UNCHANGED result
    /\ UNCHANGED << df, gc_idx, pullback_idx, signal_idx, examined, reads >>
    /\ UNCHANGED otherThanScan

\* line 127
EndSearch(g, len) == Min(g + PULLBACK_MAX + 1, len)

\* a pullback loop whose end is not clamped to the series
PullbackContinues_Unclamped(k, g, len) == k < g + PULLBACK_MAX + 1

\* lines 128-130: range(gc_idx + PULLBACK_MIN, end_search), left when i >= n
PullbackContinues(k, g, len) == k < EndSearch(g, len) /\ ~(k >= len)

\* lines 139-140: ma*(1 - margin) <= x <= ma*(1 + margin), a NaN comparing false;
\* ma is the mean times W2
Within(x, ma) ==
    /\ ~IsNaN(x)
    /\ ma * (100 - TOUCH_MARGIN) <= x * W2 * 100
    /\ x * W2 * 100 <= ma * (100 + TOUCH_MARGIN)

\* a pullback test that looks at the low only
IsPullback_LowOnly(k) ==
    LET curr_low  == Iloc(df, "low", k)
        curr_ma20 == price_ma20(df, k)
    IN  IF IsNaN(curr_ma20) THEN FALSE ELSE Within(curr_low, curr_ma20)

\* lines 131-142: the test at one index of the pullback loop
IsPullback(k) ==
    LET curr_low   == Iloc(df, "low", k)
        curr_close == Iloc(df, "close", k)
        curr_ma20  == price_ma20(df, k)
    IN  IF IsNaN(curr_ma20) THEN FALSE
        ELSE Within(curr_low, curr_ma20) \/ Within(curr_close, curr_ma20)

\* lines 128-146: one iteration of the pullback loop; a match leaves the loop
PullbackStep ==
    /\ pc = "pullback"
    /\ gc_idx # None
    /\ PullbackContinues(i, gc_idx, n)
    /\ reads' = reads \cup {i}
    /\ IF ~ValidPos(i, n)
       THEN /\ pc' = "done"
            /\ result' = Raise("IndexError")
            /\ UNCHANGED << i, pullback_idx, stages >>
       ELSE IF IsPullback(i)
       THEN IF IsNaN(Iloc(df, "low", i))
            THEN \* round(curr_low) of a NaN
                 /\ pc' = "done"
                 /\ result' = Raise("ValueError")
                 /\ UNCHANGED << i, pullback_idx, stages >>
            ELSE /\ pullback_idx' = i
                 /\ pc' = "signal"
                 /\ stages' = stages \cup {"signal"}
                 /\ i' = i + 1
                 /\ UNCHANGED result
       ELSE /\ i' = i + 1
            /\ UNCHANGED << pc, pullback_idx, result, stages >>
    /\ UNCHANGED << df, gc_idx, signal_idx, examined >>
    /\ UNCHANGED otherThanScan

\* lines 128, 148-149: the loop ran out without a match (or, reached without a
\* crossover index, gc_idx + PULLBACK_MIN is None + int)
PullbackExit ==
    /\ pc = "pullback"
    /\ IF gc_idx = None
       THEN result' = Raise("TypeError")
       ELSE /\ ~PullbackContinues(i, gc_idx, n)
            /\ result' = ReturnNone
    /\ pc' = "done"
    /\ UNCHANGED << df, i, gc_idx, pullback_idx, signal_idx, examined, reads, stages >>
    /\ UNCHANGED otherThanScan

\* line 156
EndSignal(p, len) == Min(p + SIGNAL_LOOKBACK + 1, len)

\* lines 157-159: range(pullback_idx + 1, end_signal), left when i >= n
SignalContinues(k, p, len) == k < EndSignal(p, len) /\ ~(k >= len)

\* a signal test that compares with the bar's own high, not the previous bar's
IsSignal_SameBarHigh(k) ==
    LET curr_open  == Iloc(df, "open", k)
        curr_close == Iloc(df, "close", k)
        curr_high  == Iloc(df, "high", k)
        prev_high  == Iloc(df, "high", k)
    IN  IF \E x \in {curr_open, curr_close, curr_high, prev_high} : IsNaN(x)
        THEN FALSE
        ELSE /\ curr_close > curr_open
             /\ (curr_close > prev_high \/ curr_high > prev_high)

\* lines 160-174: the test at one index of the signal loop
IsSignal(k) ==
    LET curr_open  == Iloc(df, "open", k)
        curr_close == Iloc(df, "close", k)
        curr_high  == Iloc(df, "high", k)
        prev_high  == Iloc(df, "high", k - 1)
    IN  IF \E x \in {curr_open, curr_close, curr_high, prev_high} : IsNaN(x)
        THEN FALSE
        ELSE LET is_bullish == curr_close > curr_open
                 breaks_prev_high == curr_close > prev_high \/ curr_high > prev_high
             IN  is_bullish /\ breaks_prev_high

\* lines 157-182: one iteration of the signal loop; a match leaves the loop
SignalStep ==
    /\ pc = "signal"
    /\ SignalContinues(i, pullback_idx, n)
    /\ reads' = reads \cup {i - 1, i}
    /\ IF ~ValidPos(i, n) \/ ~ValidPos(i - 1, n)
       THEN /\ pc' = "done"
            /\ result' = Raise("IndexError")
            /\ UNCHANGED << i, signal_idx, stages >>
       ELSE IF IsSignal(i)
       THEN /\ signal_idx' = i
            /\ pc' = "assemble"
            /\ stages' = stages \cup {"assemble"}
            /\ UNCHANGED << i, result >>
       ELSE /\ i' = i + 1
            /\ UNCHANGED << pc, signal_idx, result, stages >>
    /\ UNCHANGED << df, gc_idx, pullback_idx, examined >>
    /\ UNCHANGED otherThanScan

\* lines 157, 184-185: the loop ran out without a match
SignalExit ==
    /\ pc = "signal"
    /\ ~SignalContinues(i, pullback_idx, n)
    /\ pc' = "done"
    /\ result' = ReturnNone
    /\ UNCHANGED << df, i, gc_idx, pullback_idx, signal_idx, examined, reads, stages >>
    /\ UNCHANGED otherThanScan

\* lines 188-194: round(curr_v5 / curr_v20, 2) in hundredths (0 when the
\* check fails), on the exact quotient, a half rounding up
VolGcRatio(d) ==
    LET curr_v5  == RollingMean(d, "volume", V0, -1)
        curr_v20 == vol_ma20(d, -1)
    IN  IF ~IsNaN(curr_v5) /\ ~IsNaN(curr_v20) /\ curr_v20 > 0 /\ curr_v5 > curr_v20
        THEN (2 * 100 * curr_v5 + curr_v20) \div (2 * curr_v20)
        ELSE 0

\* lines 204-212: the crossover summary; curr_p20 and curr_p200 are what the
\* crossover loop left in them, the means at the last index it visited
PriceGcInfo(d, g) ==
    LET curr_p20  == price_ma20(d, Len0(d) - 1)
        curr_p200 == price_ma200(d, Len0(d) - 1)
    IN  IF ~IsNaN(curr_p20) /\ ~IsNaN(curr_p200) /\ curr_p20 > curr_p200
        THEN DateAt(d, g)
        ELSE None

\* a summary that calls a signal "today" only one position past the last bar
PullbackInfo_TodayPastEnd(d, g, p, s) ==
    [gc_date       |-> DateAt(d, g),
     pullback_date |-> DateAt(d, p),
     pullback_low  |-> Iloc(d, "low", p),
     signal_date   |-> DateAt(d, s),
     signal_type   |-> IF s = Len0(d) THEN "today" ELSE "historic",
     signal_tag    |-> IF s = Len0(d) THEN None ELSE DateAt(d, s)]

\* lines 174-182, 214-222: the pullback summary.  signal_type is the fixed
\* "today" text when i == n - 1 and otherwise the text that carries
\* df.index[i], kept here as signal_tag
PullbackInfo(d, g, p, s) ==
    [gc_date       |-> DateAt(d, g),
     pullback_date |-> DateAt(d, p),
     pullback_low  |-> Iloc(d, "low", p),
     signal_date   |-> DateAt(d, s),
     signal_type   |-> IF s = Len0(d) - 1 THEN "today" ELSE "historic",
     signal_tag    |-> IF s = Len0(d) - 1 THEN None ELSE DateAt(d, s)]

\* lines 187-240: volume ratio, the three summaries, the returned dict
Assemble ==
    /\ pc = "assemble"
    /\ LET ratio      == VolGcRatio(df)
           last_close == Iloc(df, "close", -1)
           price_gc   == PriceGcInfo(df, gc_idx)
           pullback   == IF signal_idx # None
                         THEN PullbackInfo(df, gc_idx, pullback_idx, signal_idx)
                         ELSE NoPullback
           vol_gc     == IF ratio > 0 THEN ratio ELSE None
       IN  result' =
             IF price_gc = None /\ pullback = NoPullback /\ vol_gc = None
             THEN ReturnNone
             ELSE IF IsNaN(last_close)
             THEN \* int(last_close) of a NaN
                  Raise("ValueError")
             ELSE [kind |-> "dict", close |-> last_close, price_gc |-> price_gc,
                   pullback |-> pullback, vol_gc |-> vol_gc, error |-> "-"]
    /\ pc' = "done"
    /\ reads' = reads \cup {Resolve(-1, n)}
    /\ UNCHANGED << df, i, gc_idx, pullback_idx, signal_idx, examined, stages >>
    /\ UNCHANGED otherThanScan

Next ==
    \/ Enter
    \/ CrossoverStep
    \/ CrossoverExit
    \/ PullbackStep
    \/ PullbackExit
    \/ SignalStep
    \/ SignalExit
    \/ Assemble

Spec == Init /\ [][Next]_vars

---------------------------------------------------------------------------
(* The indicator set over a growing series.  The series of an instrument   *)
(* is extended by the bars get_ohlcv appends between two scans; each scan  *)
(* of a series with enough history computes the rolling means afresh.      *)

\* most bars appended to a series
MaxAppend == 3

\* lines 86-89 and 188 at position k: the five rolling means
IndicatorAt(d, k) ==
    [price_ma20  |-> price_ma20(d, k),
     price_ma200 |-> price_ma200(d, k),
     vol_ma20    |-> vol_ma20(d, k),
     vol_ma200   |-> vol_ma200(d, k),
     vol_ma5     |-> RollingMean(d, "volume", V0, k)]

\* lines 86-89 and 188: the five rolling mean series of the frame
IndicatorSet(d) == [k \in 1 .. Len0(d) |-> IndicatorAt(d, k - 1)]

\* the series the scans start from: one bar short of, or one bar past, the
\* length check
MaInputs == {Frame(pre, << >>, 0) : pre \in {W2 - 1, W2 + 1}}

InitMa ==
    /\ df \in MaInputs
    /\ stats = << >>
    /\ pc = "idle"
    /\ i = None
    /\ gc_idx = None /\ pullback_idx = None /\ signal_idx = None
    /\ result = Pending
    /\ examined = {}
    /\ reads = {}
    /\ stages = {}
    /\ LoopIdle
    /\ AppIdle
    /\ CacheIdle

\* fetcher.py lines 63-69: the newly fetched bar is appended to the series
AppendBar ==
    /\ Len(df.rows) < MaxAppend
    /\ \E kind \in {"Up", "Dn", "Missing"} :
          df' = [df EXCEPT !.rows =
                    Append(@, [date |-> DateOf(Len0(df))] @@ Shape(kind))]
    /\ UNCHANGED << pc, i, gc_idx, pullback_idx, signal_idx, result, examined,
                    reads, stages, stats >>
    /\ UNCHANGED << loopVars, appVars, cacheVars >>

\* lines 76-89, 188: a scan of a series that passes the length check computes
\* the rolling means
ComputeIndicators ==
    /\ ~TooShort(df)
    /\ stats' = IndicatorSet(df)
    /\ stats' # stats
    /\ UNCHANGED << scanVars, loopVars, appVars, cacheVars >>

NextMa ==
    \/ AppendBar
    \/ ComputeIndicators

SpecMa == InitMa /\ [][NextMa]_vars

---------------------------------------------------------------------------
(* The universe scan: the __main__ block of strategy_golden_pullback.py.   *)
(* A printed line is kept as the sequence of its tokens, white space       *)
(* between tokens left out.  The Korean words of the source are written    *)
(* in Latin letters: sinho (signal), gae (the counter word), balgyeon      *)
(* (found), wanryo (done), sigachongaek sangwi (top by market value),      *)
(* jeollyak scan sijak (strategy scan start), eopseum (none).  The empty   *)
(* lines print() adds in front of some texts are left out; the reader of   *)
(* the stream skips empty lines.                                           *)

\* most instruments in a market's list
MaxTickers == 2

\* a number and a literal text inside a line
Num(x) == [t |-> "num", v |-> x, s |-> ""]
Lit(x) == [t |-> "lit", v |-> 0, s |-> x]
\* the JSON text of a found item: its market and the code of its instrument
Json(market, code) == [t |-> "json", v |-> 0, s |-> market \o ":" \o code]

\* line 276
Markets == << "KOSPI", "KOSDAQ" >>
\* line 250: choices of --target
Targets == {"price_gc", "vol_gc", "pullback"}

\* instrument codes, and the lists get_top_tickers can return (lines 55-65):
\* the index of the listing, each code at most once
Codes == {"005930", "000660", "035420"}
TickerLists(maxLen) ==
    {l \in UNION {[1..k -> Codes] : k \in 0..maxLen} :
        \A a, b \in DOMAIN l : a # b => l[a] # l[b]}

\* lines 263-266: the banner
BannerLines(target) ==
    << << Lit("====") >>,
       << Lit("jeollyak:"), Lit("(target:"), Lit(target), Lit(")") >>,
       << Lit("gijunil:"), Num(20260223), Lit("|"), Lit("data sijak:"), Num(20250119) >>,
       << Lit("====") >> >>

\* line 277: "[KOSPI] sigachongaek sangwi N gae chuchul jung..."
ListingLine(market, top_n) ==
    << Lit("["), Lit(market), Lit("]"), Lit("sigachongaek"), Lit("sangwi"),
       Num(top_n), Lit("gae"), Lit("chuchul jung...") >>

\* line 282: "[KOSPI] jeollyak scan sijak (chong N gae jongmok)..."
ScanStartLine(market, total) ==
    << Lit("["), Lit(market), Lit("]"), Lit("jeollyak"), Lit("scan"), Lit("sijak"),
       Lit("(chong"), Num(total), Lit("gae"), Lit("jongmok)...") >>

\* line 325: "!!!FOUND_JSON!!! {...}"
FoundLine(market, code) == << Lit("!!!FOUND_JSON!!!"), Json(market, code) >>

\* line 332: "[KOSPI][  1/500] sinho 0gae balgyeon  (0s)"
ProgressLine(market, idx, total, cnt, elapsed) ==
    << Lit("["), Lit(market), Lit("]"), Lit("["), Num(idx), Lit("/"), Num(total),
       Lit("]"), Lit("sinho"), Num(cnt), Lit("gae"), Lit("balgyeon"),
       Lit("("), Num(elapsed), Lit("s)") >>

\* line 338: the warning of save_results for an empty list
NoSignalLine(target) == << Lit("!"), Lit(target), Lit("sinho"), Lit("eopseum") >>

\* lines 365-381: the closing summary
MarketSummaryLines(market, target, count) ==
    << << Lit("==="), Lit(market), Lit(target), Lit("sinho"), Lit("(chong"),
          Num(count), Lit("gae)"), Lit("===") >>,
       IF count > 0 THEN << Lit("table"), Num(count) >> ELSE << Lit("eopseum") >> >>

ClosingLines == << << Lit("wanryo!") >>, << Lit("jeojang"), Lit("wanryo doeeotseumnida.") >> >>

\* an uncaught exception: the traceback, on stderr
TracebackLine == << Lit("Traceback"), Lit("(most recent call last):") >>

\* what the work on one instrument can meet (lines 290-325): get_ohlcv gives a
\* frame, None, or raises; scan_strategy gives a dict, None, or raises; the
\* listing lookup of lines 295-297 succeeds or raises.  A dict of
\* scan_strategy always holds the pullback summary (it is only built past the
\* return of line 185); the other two summaries may be None.
Outcomes ==
    {o \in [fetch : {"df", "none", "raises"}, scan : {"dict", "none", "raises"},
            price_gc : BOOLEAN, pullback : {TRUE}, vol_gc : BOOLEAN,
            lookup : {"ok", "raises"}] :
        /\ o.fetch = "none" => o.scan = "none"
        /\ o.fetch = "raises" => o.scan = "none"
        /\ o.scan # "dict" => (~o.price_gc /\ ~o.vol_gc /\ o.lookup = "ok")}

\* an exception leaves the try block
Throws(o) == o.fetch = "raises" \/ o.scan = "raises" \/ o.lookup = "raises"

\* a handler that lets an exception of scan_strategy through
Catches_FetchOnly(o) == o.scan # "raises"

\* lines 326-327: except Exception: pass
Catches(o) == TRUE

\* lines 303-314: the branch of the selected target builds found_item
FoundFor(target, o) ==
    /\ ~Throws(o)
    /\ o.scan = "dict"
    /\ \/ target = "pullback" /\ o.pullback
       \/ target = "price_gc" /\ o.price_gc
       \/ target = "vol_gc" /\ o.vol_gc

\* a counter that counts every instrument
NextCount_EveryInstrument(cnt, found) == cnt + 1

\* lines 306, 310, 314: total_found_cnt += 1 next to found_item
NextCount(cnt, found) == IF found THEN cnt + 1 ELSE cnt

\* lines 248-274: the process after its arguments are parsed
ScannerStart(target) ==
    [target  |-> target,
     lpc     |-> "market",
     m       |-> 1,
     listing |-> << << >>, << >> >>,
     i       |-> 0,
     total_found_cnt |-> 0,
     signals |-> << 0, 0 >>,
     out     |-> BannerLines(target),
     visited |-> << >>,
     failed  |-> 0,
     top_n   |-> 500]

\* lines 277-287: the listing of a market; get_top_tickers is outside any try
BeginMarket(P, listing) ==
    IF listing.raises
    THEN [P EXCEPT !.lpc = "crashed",
                   !.out = @ \o << ListingLine(Markets[P.m], P.top_n), TracebackLine >>]
    ELSE [P EXCEPT !.lpc = "ticker",
                   !.listing[P.m] = listing.tickers,
                   !.i = 1,
                   !.out = @ \o << ListingLine(Markets[P.m], P.top_n),
                                   ScanStartLine(Markets[P.m], Len(listing.tickers)) >>]

\* lines 289-333: one iteration of the loop over the market's instruments
Iterate(P, o) ==
    LET market == Markets[P.m]
        ticker == P.listing[P.m][P.i]
        total  == Len(P.listing[P.m])
        found  == FoundFor(P.target, o)
        cnt    == NextCount(P.total_found_cnt, found)
    IN  IF Throws(o) /\ ~Catches(o)
        THEN [P EXCEPT !.lpc = "crashed", !.out = @ \o << TracebackLine >>]
        ELSE [P EXCEPT
                !.total_found_cnt = cnt,
                !.signals[P.m] = IF found THEN @ + 1 ELSE @,
                !.out = @ \o (IF found THEN << FoundLine(market, ticker) >> ELSE << >>)
                          \o << ProgressLine(market, P.i, total, cnt, 0) >>,
                !.visited = Append(@, << P.m, ticker >>),
                !.failed = IF Throws(o) \/ o.fetch = "none" THEN @ + 1 ELSE @,
                !.i = @ + 1]

\* lines 336-360: save_results for the target, then the next market
EndMarket(P) ==
    [P EXCEPT !.out = IF P.signals[P.m] = 0 THEN Append(@, NoSignalLine(P.target)) ELSE @,
              !.m = IF P.m < Len(Markets) THEN @ + 1 ELSE @,
              !.lpc = IF P.m < Len(Markets) THEN "market" ELSE "summary"]

\* lines 365-381: the closing summary; the process exits with code 0
Summarise(P) ==
    [P EXCEPT !.out = @ \o << << Lit("====") >> >>
                        \o MarketSummaryLines(Markets[1], P.target, P.signals[1])
                        \o MarketSummaryLines(Markets[2], P.target, P.signals[2])
                        \o ClosingLines,
              !.lpc = "exited"]

\* SIGTERM (app.py line 181, process.terminate()) ends the process where it is
Killed(P) == [P EXCEPT !.lpc = "killed"]

Running(P) == P.lpc \in {"market", "ticker", "summary"}

\* the listings get_top_tickers can answer with
Listings ==
    {[raises |-> TRUE, tickers |-> << >>]}
    \cup {[raises |-> FALSE, tickers |-> l] : l \in TickerLists(MaxTickers)}

InitLoop ==
    /\ scanner \in {ScannerStart(target) : target \in Targets}
    /\ df = NoFrame
    /\ stats = << >>
    /\ pc = "idle"
    /\ i = None
    /\ gc_idx = None /\ pullback_idx = None /\ signal_idx = None
    /\ result = Pending
    /\ examined = {}
    /\ reads = {}
    /\ stages = {}
    /\ AppIdle
    /\ CacheIdle

ScanBeginMarket ==
    /\ scanner.lpc = "market"
    /\ \E listing \in Listings : scanner' = BeginMarket(scanner, listing)
    /\ UNCHANGED << scanVars, maVars, appVars, cacheVars >>

ScanIterate ==
    /\ scanner.lpc = "ticker"
    /\ scanner.i <= Len(scanner.listing[scanner.m])
    /\ \E o \in Outcomes : scanner' = Iterate(scanner, o)
    /\ UNCHANGED << scanVars, maVars, appVars, cacheVars >>

ScanEndMarket ==
    /\ scanner.lpc = "ticker"
    /\ scanner.i > Len(scanner.listing[scanner.m])
    /\ scanner' = EndMarket(scanner)
    /\ UNCHANGED << scanVars, maVars, appVars, cacheVars >>

ScanSummarise ==
    /\ scanner.lpc = "summary"
    /\ scanner' = Summarise(scanner)
    /\ UNCHANGED << scanVars, maVars, appVars, cacheVars >>

ScanKilled ==
    /\ Running(scanner)
    /\ scanner' = Killed(scanner)
    /\ UNCHANGED << scanVars, maVars, appVars, cacheVars >>

NextLoop ==
    \/ ScanBeginMarket
    \/ ScanIterate
    \/ ScanEndMarket
    \/ ScanSummarise
    \/ ScanKilled

SpecLoop == InitLoop /\ [][NextLoop]_vars

---------------------------------------------------------------------------
(* The dashboard server, app.py.  Requests are handled concurrently with   *)
(* the run_scanner_bg threads; a handler is one step, a thread is stepped  *)
(* at its blocking points (thread start, Popen, each line of the pipe, end *)
(* of the pipe, the finally clause).  The scanner process of a run is the  *)
(* universe scan above.  progress is kept in units of 0.05 percent, a      *)
(* percentage read from a line in tenths of a percent.                     *)

\* most run_scanner_bg threads started in one behaviour
MaxRuns == 2
\* progress 100.0 and 50.0
PROGRESS_FULL == 2000
PROGRESS_HALF == 1000

\* the targets requests are made for, and one that scan_state does not hold
RequestTargets == {"pullback", "bogus"}

\* the texts of state['message']; cur and tot are the numbers inside
Msg(text) == [text |-> text, cur |-> 0, tot |-> 0]
MsgIdle == Msg("idle")
MsgEngine == Msg("1. engine starting")
MsgListing(market) == Msg("listing " \o market)
MsgScanning(market) == Msg("scanning " \o market)
MsgSearching(market, cur, tot) == [text |-> "searching " \o market, cur |-> cur, tot |-> tot]
MsgStopped == Msg("stopped by user")
MsgCompleted == Msg("completed")
MsgScanError == Msg("scan error")
MsgException == Msg("error: exception")

\* lines 17-21: scan_state as the module is loaded; process 0 is None,
\* otherwise the number of the run whose Popen object it is
IdleState ==
    [is_running |-> FALSE, progress |-> 0, message |-> MsgIdle, signals_found |-> 0,
     process |-> 0, stopped |-> FALSE, found_items |-> << >>]

\* lines 26-32: the state a starting thread writes
StartedState ==
    [is_running |-> TRUE, progress |-> 0, message |-> MsgEngine, signals_found |-> 0,
     process |-> 0, stopped |-> FALSE, found_items |-> << >>]

\* "text in line"
Contains(line, toks) ==
    \E p \in 1 .. (Len(line) - Len(toks) + 1) : SubSeq(line, p, p + Len(toks) - 1) = toks

\* line 59 at position p: \[\s*(\d+)/(\d+)\]\s*([\d.]+)%\s*wanryo.*?sinho\s*(\d+)gae
SignalAfter(line, q) ==
    /\ q + 2 <= Len(line)
    /\ line[q] = Lit("sinho") /\ line[q + 1].t = "num" /\ line[q + 2] = Lit("gae")
MatchAt(line, p) ==
    /\ p + 7 <= Len(line)
    /\ line[p] = Lit("[") /\ line[p + 1].t = "num" /\ line[p + 2] = Lit("/")
    /\ line[p + 3].t = "num" /\ line[p + 4] = Lit("]")
    /\ line[p + 5].t = "num" /\ line[p + 6] = Lit("%") /\ line[p + 7] = Lit("wanryo")
    /\ \E q \in (p + 8) .. Len(line) : SignalAfter(line, q)

NoMatch == [matched |-> FALSE, current_cnt |-> 0, total_cnt |-> 0, raw_pct |-> 0, sigs |-> 0]

\* lines 59, 90-95: pattern.search(line) and its four groups
PatternSearch(line) ==
    LET ps == {p \in 1 .. Len(line) : MatchAt(line, p)}
    IN  IF ps = {} THEN NoMatch
        ELSE LET p == Least(ps)
                 q == Least({x \in (p + 8) .. Len(line) : SignalAfter(line, x)})
             IN  [matched |-> TRUE, current_cnt |-> line[p + 1].v,
                  total_cnt |-> line[p + 3].v, raw_pct |-> line[p + 5].v,
                  sigs |-> line[q + 1].v]

\* the line the comment of line 58 describes: "[250/500] 50.0% wanryo... sinho 4gae balgyeon"
CommentedProgressLine(idx, total, pct, cnt) ==
    << Lit("["), Num(idx), Lit("/"), Num(total), Lit("]"), Num(pct), Lit("%"),
       Lit("wanryo"), Lit("..."), Lit("sinho"), Num(cnt), Lit("gae"), Lit("balgyeon") >>

\* lines 78-88: the market and start texts
MarketMark(market, words) == << Lit("["), Lit(market), Lit("]") >> \o words
ListingWords == << Lit("sigachongaek"), Lit("sangwi") >>
StartWords == << Lit("jeollyak"), Lit("scan"), Lit("sijak") >>

\* lines 62-105: the body of the loop over the lines of the pipe; st is
\* scan_state[target], cm is current_market
HandleLine(st, cm, line) ==
    IF line[1] = Lit("!!!FOUND_JSON!!!")
    THEN [st |-> [st EXCEPT !.found_items = Append(@, line[2].s)], cm |-> cm]
    ELSE
      LET cm1 == IF Contains(line, MarketMark("KOSPI", ListingWords)) THEN "KOSPI"
                 ELSE IF Contains(line, MarketMark("KOSPI", StartWords)) THEN cm
                 ELSE IF Contains(line, MarketMark("KOSDAQ", ListingWords)) THEN "KOSDAQ"
                 ELSE cm
          msg1 == IF Contains(line, MarketMark("KOSPI", ListingWords)) THEN MsgListing("KOSPI")
                  ELSE IF Contains(line, MarketMark("KOSPI", StartWords)) THEN MsgScanning("KOSPI")
                  ELSE IF Contains(line, MarketMark("KOSDAQ", ListingWords)) THEN MsgListing("KOSDAQ")
                  ELSE IF Contains(line, MarketMark("KOSDAQ", StartWords)) THEN MsgScanning("KOSDAQ")
                  ELSE st.message
          match == PatternSearch(line)
      IN  IF ~match.matched
          THEN [st |-> [st EXCEPT !.message = msg1], cm |-> cm1]
          ELSE [st |-> [st EXCEPT
                          !.progress = IF cm1 = "KOSPI" THEN match.raw_pct
                                       ELSE IF cm1 = "KOSDAQ" THEN PROGRESS_HALF + match.raw_pct
                                       ELSE @,
                          !.message = IF cm1 \in {"KOSPI", "KOSDAQ"}
                                      THEN MsgSearching(cm1, match.current_cnt, match.total_cnt)
                                      ELSE msg1,
                          !.signals_found = match.sigs],
                cm |-> cm1]

\* a conclusion that empties found_items of a stopped run
Conclude_DropsItems(st, returncode) ==
    IF st.stopped THEN [st EXCEPT !.message = MsgStopped, !.found_items = << >>]
    ELSE IF returncode = 0
    THEN [st EXCEPT !.progress = PROGRESS_FULL, !.message = MsgCompleted]
    ELSE [st EXCEPT !.message = MsgScanError]

\* lines 109-115: what the thread writes once the process has ended
Conclude(st, returncode) ==
    IF st.stopped THEN [st EXCEPT !.message = MsgStopped]
    ELSE IF returncode = 0
    THEN [st EXCEPT !.progress = PROGRESS_FULL, !.message = MsgCompleted]
    ELSE [st EXCEPT !.message = MsgScanError]

\* process.returncode: 0, 1 after an uncaught exception, -15 after SIGTERM
ReturnCode(P) ==
    IF P.lpc = "exited" THEN 0 ELSE IF P.lpc = "crashed" THEN 1 ELSE 0 - 15

\* lines 190-206: the data /api/scan/status answers with
StatusOf(t) ==
    [is_running |-> scan_state[t].is_running, progress |-> scan_state[t].progress,
     message |-> scan_state[t].message, signals_found |-> scan_state[t].signals_found,
     found_items |-> scan_state[t].found_items]

\* line 163: a thread that has been started and has not yet run
NewRun(t) ==
    [target |-> t, tpc |-> "begin", current_market |-> "", proc |-> NoScanner,
     pipe |-> << >>, sigterm |-> FALSE, last_line |-> << >>]

\* the listings the scanner of a run meets: get_top_tickers raises, or
\* answers with one instrument
AppListings ==
    {l \in Listings : l.raises \/ l.tickers = << "005930" >>}

\* the line writes nothing: it is no found item, carries no market or start
\* text and the pattern does not match it
Idle(line) ==
    /\ line[1] # Lit("!!!FOUND_JSON!!!")
    /\ \A market \in {"KOSPI", "KOSDAQ"} :
          /\ ~Contains(line, MarketMark(market, ListingWords))
          /\ ~Contains(line, MarketMark(market, StartWords))
    /\ ~PatternSearch(line).matched

\* the unread lines a thread takes in one step: those that write nothing
\* (they touch no shared state) and the first line that writes, if any
RECURSIVE Taken(_)
Taken(pipe) ==
    IF pipe = << >> THEN 0
    ELSE IF Idle(Head(pipe)) THEN 1 + Taken(Tail(pipe))
    ELSE 1

\* what the scanner process does next, by itself
ScannerSteps(P) ==
    IF P.lpc = "market" THEN {BeginMarket(P, l) : l \in AppListings}
    ELSE IF P.lpc = "ticker" /\ P.i <= Len(P.listing[P.m])
    THEN {Iterate(P, o) : o \in Outcomes}
    ELSE IF P.lpc = "ticker" THEN {EndMarket(P)}
    ELSE IF P.lpc = "summary" THEN {Summarise(P)}
    ELSE {}

InitApp ==
    /\ CacheIdle
    /\ scan_state = [t \in Targets |-> IdleState]
    /\ runs = << >>
    /\ scanner = NoScanner
    /\ df = NoFrame
    /\ stats = << >>
    /\ pc = "idle"
    /\ i = None
    /\ gc_idx = None /\ pullback_idx = None /\ signal_idx = None
    /\ result = Pending
    /\ examined = {}
    /\ reads = {}
    /\ stages = {}

\* lines 150-167: POST /api/scan/start
ApiStart ==
    /\ \E t \in RequestTargets :
          IF t \notin Targets THEN UNCHANGED runs
          ELSE IF scan_state[t].is_running THEN UNCHANGED runs
          ELSE /\ Len(runs) < MaxRuns
               /\ runs' = Append(runs, NewRun(t))
    /\ UNCHANGED scan_state
    /\ UNCHANGED << scanVars, maVars, loopVars, cacheVars >>

\* lines 170-187: POST /api/scan/stop
ApiStop ==
    /\ \E t \in RequestTargets :
          IF t \notin Targets THEN UNCHANGED appVars
          ELSE IF ~scan_state[t].is_running \/ scan_state[t].process = 0
          THEN UNCHANGED appVars
          ELSE LET k == scan_state[t].process
               IN  /\ scan_state' = [scan_state EXCEPT ![t].stopped = TRUE]
                   /\ runs' = [runs EXCEPT
                                 ![k].sigterm = @ \/ Running(runs[k].proc)]
    /\ UNCHANGED << scanVars, maVars, loopVars, cacheVars >>

\* lines 24-32: the thread starts and resets the state of its target
RunBegin ==
    /\ \E k \in DOMAIN runs :
          /\ runs[k].tpc = "begin"
          /\ scan_state' = [scan_state EXCEPT ![runs[k].target] = StartedState]
          /\ runs' = [runs EXCEPT ![k].tpc = "popen"]
    /\ UNCHANGED << scanVars, maVars, loopVars, cacheVars >>

\* lines 36-60: Popen; an exception of it is caught at line 117
RunPopen ==
    /\ \E k \in DOMAIN runs :
          /\ runs[k].tpc = "popen"
          /\ \/ /\ runs' = [runs EXCEPT ![k].tpc = "read",
                                        ![k].proc = ScannerStart(runs[k].target),
                                        ![k].pipe = ScannerStart(runs[k].target).out]
                /\ scan_state' = [scan_state EXCEPT ![runs[k].target].process = k]
             \/ /\ runs' = [runs EXCEPT ![k].tpc = "finally"]
                /\ scan_state' = [scan_state EXCEPT ![runs[k].target].message = MsgException]
    /\ UNCHANGED << scanVars, maVars, loopVars, cacheVars >>

\* lines 62-105: the loop over the lines of the pipe, up to and with the
\* next line that writes to the state
RunReadLine ==
    /\ \E k \in DOMAIN runs :
          /\ runs[k].tpc = "read"
          /\ runs[k].pipe # << >>
          /\ LET t == runs[k].target
                 c == Taken(runs[k].pipe)
                 line == runs[k].pipe[c]
                 h == HandleLine(scan_state[t], runs[k].current_market, line)
             IN  /\ scan_state' = [scan_state EXCEPT ![t] = h.st]
                 /\ runs' = [runs EXCEPT ![k].pipe = SubSeq(@, c + 1, Len(@)),
                                         ![k].current_market = h.cm,
                                         ![k].last_line = line]
    /\ UNCHANGED << scanVars, maVars, loopVars, cacheVars >>

\* lines 62, 107-115: the pipe is at its end, process.wait() returns, and the
\* outcome of the run is written
RunConclude ==
    /\ \E k \in DOMAIN runs :
          /\ runs[k].tpc = "read"
          /\ runs[k].pipe = << >>
          /\ ~Running(runs[k].proc)
          /\ scan_state' = [scan_state EXCEPT ![runs[k].target] =
                               Conclude(@, ReturnCode(runs[k].proc))]
          /\ runs' = [runs EXCEPT ![k].tpc = "finally", ![k].last_line = << >>]
    /\ UNCHANGED << scanVars, maVars, loopVars, cacheVars >>

\* lines 120-121: finally; the thread ends
RunFinally ==
    /\ \E k \in DOMAIN runs :
          /\ runs[k].tpc = "finally"
          /\ scan_state' = [scan_state EXCEPT ![runs[k].target].is_running = FALSE]
          /\ runs' = [runs EXCEPT ![k] = [NewRun(runs[k].target) EXCEPT !.tpc = "finished"]]
    /\ UNCHANGED << scanVars, maVars, loopVars, cacheVars >>

\* the scanner process of a run takes its next step, and the thread reads
\* the unread lines up to and with the first line that writes to the state.
\* Printing touches nothing but the pipe, and SIGTERM reaches the process
\* in a step of its own, so every interleaving of printing, reading,
\* requests and signals has its like among these steps.
ScannerRuns ==
    /\ \E k \in DOMAIN runs :
          /\ runs[k].tpc = "read"
          /\ \A p \in DOMAIN runs[k].pipe : Idle(runs[k].pipe[p])
          /\ \E Q \in ScannerSteps(runs[k].proc) :
                LET t == runs[k].target
                    unread == runs[k].pipe
                                \o SubSeq(Q.out, Len(runs[k].proc.out) + 1, Len(Q.out))
                    c == Taken(unread)
                    h == HandleLine(scan_state[t], runs[k].current_market, unread[c])
                IN  IF unread = << >>
                    THEN /\ runs' = [runs EXCEPT ![k].proc = Q]
                         /\ UNCHANGED scan_state
                    ELSE /\ scan_state' = [scan_state EXCEPT ![t] = h.st]
                         /\ runs' = [runs EXCEPT
                                       ![k].proc = Q,
                                       ![k].pipe = SubSeq(unread, c + 1, Len(unread)),
                                       ![k].current_market = h.cm,
                                       ![k].last_line = unread[c]]
    /\ UNCHANGED << scanVars, maVars, loopVars, cacheVars >>

\* SIGTERM reaches the scanner process of a run
ScannerDies ==
    /\ \E k \in DOMAIN runs :
          /\ runs[k].tpc = "read"
          /\ runs[k].sigterm
          /\ Running(runs[k].proc)
          /\ runs' = [runs EXCEPT ![k].proc = Killed(@)]
    /\ UNCHANGED scan_state
    /\ UNCHANGED << scanVars, maVars, loopVars, cacheVars >>

NextApp ==
    \/ ApiStart
    \/ ApiStop
    \/ RunBegin
    \/ RunPopen
    \/ RunReadLine
    \/ RunConclude
    \/ RunFinally
    \/ ScannerRuns
    \/ ScannerDies

SpecApp == InitApp /\ [][NextApp]_vars

----------------------------------------------------------------------------
(* The local price file of one instrument.  get_ohlcv (fetcher.py) and     *)
(* collect_ohlcv (collector.py) keep the same file data/<ticker>.csv: both *)
(* read it, ask the exchange for the days that are missing, and write it   *)
(* back.  A bar is identified by its day; days are numbered 1 .. MaxDay.   *)
(* The text form of a day ('%Y%m%d') and its parsed form denote the same   *)
(* day, and one calendar day later is the next number.  The exchange       *)
(* answers a request with the bars of the trading days it has published    *)
(* in the requested range, or the request raises.                          *)

MaxDay == 5

Days == 1 .. MaxDay

\* days without trading: the exchange has no bar for them
Holidays == {3}

\* os.path.exists(file_path) is False
NoFile == [exists |-> FALSE, rows |-> << >>]

\* df.to_csv(file_path): the file holds the rows of df
Stored(rows) == [exists |-> TRUE, rows |-> rows]

\* the calendar days a .. b, in order
Range(a, b) == [k \in 1 .. Max(b - a + 1, 0) |-> a + k - 1]

\* get_market_ohlcv(a, b, ticker) when it answers
get_market_ohlcv(a, b) ==
    SelectSeq(Range(a, b), LAMBDA d : d <= krx_last /\ d \notin Holidays)

\* df[start_date:end_date] on a date index: both ends are included
Slice(rows, a, b) == SelectSeq(rows, LAMBDA d : a <= d /\ d <= b)

\* df.index[-1]
LastDate(rows) == rows[Len(rows)]

\* what a call hands back: a frame, None, True or False
Answer(kind, rows) == [kind |-> kind, rows |-> rows]

\* fetcher.py lines 73-83: the whole range is asked for; an answer with
\* rows replaces the file
FetchWhole(start_date, end_date, raises, asked) ==
    LET whole_df == get_market_ohlcv(start_date, end_date)
        fetches == Append(asked, << start_date, end_date >>)
    IN  IF raises
        THEN [file |-> file, fetches |-> fetches,
              returned |-> Answer("None", << >>)]
        ELSE [file |-> IF whole_df # << >> THEN Stored(whole_df) ELSE file,
              fetches |-> fetches,
              returned |-> Answer("frame", whole_df)]

\* fetcher.py lines 41-83
get_ohlcv(start_date, end_date, delta_raises, whole_raises) ==
    LET local_df == file.rows
    IN  IF file.exists /\ local_df # << >>
        THEN IF LastDate(local_df) >= end_date
             THEN [file |-> file, fetches |-> << >>,
                   returned |->
                       Answer("frame", Slice(local_df, start_date, end_date))]
             ELSE LET fetch_start == LastDate(local_df) + 1
                      delta_df == get_market_ohlcv(fetch_start, end_date)
                      new_df == local_df \o delta_df
                      asked == << << fetch_start, end_date >> >>
                  IN  IF ~delta_raises /\ delta_df # << >>
                      THEN [file |-> Stored(new_df), fetches |-> asked,
                            returned |->
                                Answer("frame",
                                       Slice(new_df, start_date, end_date))]
                      ELSE FetchWhole(start_date, end_date, whole_raises,
                                      asked)
        ELSE FetchWhole(start_date, end_date, whole_raises, << >>)

\* collector.py lines 30-68
collect_ohlcv(start_date, end_date, raises) ==
    LET existing_df == file.rows
    IN  IF file.exists /\ existing_df # << >>
        THEN IF LastDate(existing_df) >= end_date
             THEN [file |-> file, fetches |-> << >>,
                   returned |-> Answer("True", << >>)]
             ELSE LET fetch_start == LastDate(existing_df) + 1
                      delta_df == get_market_ohlcv(fetch_start, end_date)
                      asked == << << fetch_start, end_date >> >>
                  IN  IF raises
                      THEN [file |-> file, fetches |-> asked,
                            returned |-> Answer("False", << >>)]
                      ELSE IF delta_df # << >>
                      THEN [file |-> Stored(existing_df \o delta_df),
                            fetches |-> asked,
                            returned |-> Answer("True", << >>)]
                      ELSE [file |-> file, fetches |-> asked,
                            returned |-> Answer("True", << >>)]
        ELSE LET whole_df == get_market_ohlcv(start_date, end_date)
                 asked == << << start_date, end_date >> >>
             IN  IF raises \/ whole_df = << >>
                 THEN [file |-> file, fetches |-> asked,
                       returned |-> Answer("False", << >>)]
                 ELSE [file |-> Stored(whole_df), fetches |-> asked,
                       returned |-> Answer("True", << >>)]

\* the record of a finished call: its arguments, the file it found, the
\* requests it sent to the exchange and what it returned
Called(fn, start_date, end_date, done) ==
    [fn |-> fn, start |-> start_date, end |-> end_date, before |-> file,
     fetches |-> done.fetches, returned |-> done.returned]

InitCache ==
    /\ file = NoFile
    /\ krx_last = 1
    /\ call = NoCall
    /\ MaIdle
    /\ LoopIdle
    /\ AppIdle
    /\ df = NoFrame
    /\ pc = "idle"
    /\ i = None
    /\ gc_idx = None /\ pullback_idx = None /\ signal_idx = None
    /\ result = Pending
    /\ examined = {}
    /\ reads = {}
    /\ stages = {}

\* one call of get_ohlcv, by a scan or by the dashboard
CallGetOhlcv ==
    /\ \E start_date \in Days, end_date \in Days,
          delta_raises \in BOOLEAN, whole_raises \in BOOLEAN :
          /\ start_date <= end_date
          /\ LET done == get_ohlcv(start_date, end_date, delta_raises,
                                   whole_raises)
             IN  /\ file' = done.file
                 /\ call' = Called("get_ohlcv", start_date, end_date, done)
    /\ UNCHANGED krx_last
    /\ UNCHANGED << scanVars, maVars, loopVars, appVars >>

\* one call of collect_ohlcv, by the collector
CallCollectOhlcv ==
    /\ \E start_date \in Days, end_date \in Days, raises \in BOOLEAN :
          /\ start_date <= end_date
          /\ LET done == collect_ohlcv(start_date, end_date, raises)
             IN  /\ file' = done.file
                 /\ call' = Called("collect_ohlcv", start_date, end_date, done)
    /\ UNCHANGED krx_last
    /\ UNCHANGED << scanVars, maVars, loopVars, appVars >>

\* a day passes: the exchange publishes it, with a bar unless it is a holiday
Publish ==
    /\ krx_last < MaxDay
    /\ krx_last' = krx_last + 1
    /\ UNCHANGED << file, call >>
    /\ UNCHANGED << scanVars, maVars, loopVars, appVars >>

NextCache ==
    \/ CallGetOhlcv
    \/ CallCollectOhlcv
    \/ Publish

SpecCache == InitCache /\ [][NextCache]_vars

---------------------------------------------------------------------------
(* The stage rules as the specification words them, over the frame of the  *)
(* call.  They are written from the specification's sentences, not from    *)
(* the loops above, and are what the loops are compared against.           *)

Defined(x) == x # NaN

\* the crossover test of section 4.2 at index k
Qualifies(k) ==
    /\ k >= 1
    /\ Defined(price_ma20(df, k - 1)) /\ Defined(price_ma200(df, k - 1))
    /\ Defined(price_ma20(df, k)) /\ Defined(price_ma200(df, k))
    /\ Defined(vol_ma20(df, k)) /\ Defined(vol_ma200(df, k))
    /\ price_ma20(df, k - 1) <= price_ma200(df, k - 1)
    /\ price_ma20(df, k) > price_ma200(df, k)
    /\ vol_ma20(df, k) > vol_ma200(df, k)

\* the crossover search range of section 4.2: max(W2, n-L-1) .. n-1
CrossoverRange == Max(W2, n - GC_LOOKBACK - 1) .. (n - 1)

QualifyingSet == {k \in CrossoverRange : Qualifies(k)}

\* x lies inside [ma*(1 - margin), ma*(1 + margin)], ma being the mean times W2
InBand(x, ma) ==
    /\ Defined(x)
    /\ (100 - TOUCH_MARGIN) * ma <= 100 * W2 * x
    /\ 100 * W2 * x <= (100 + TOUCH_MARGIN) * ma

\* the touch test of section 4.3 at index k
Touches(k) ==
    /\ Defined(price_ma20(df, k))
    /\ \/ InBand(Iloc(df, "low", k), price_ma20(df, k))
       \/ InBand(Iloc(df, "close", k), price_ma20(df, k))

\* the pullback window after a crossover at c
PullbackWindow(c) == (c + PULLBACK_MIN) .. Min(c + PULLBACK_MAX, n - 1)

TouchSet(c) == {k \in PullbackWindow(c) : Touches(k)}

\* the bullish breakout test of section 4.3 at index k
BreaksOut(k) ==
    /\ k >= 1
    /\ Defined(Iloc(df, "open", k)) /\ Defined(Iloc(df, "close", k))
    /\ Defined(Iloc(df, "high", k)) /\ Defined(Iloc(df, "high", k - 1))
    /\ Iloc(df, "close", k) > Iloc(df, "open", k)
    /\ \/ Iloc(df, "close", k) > Iloc(df, "high", k - 1)
       \/ Iloc(df, "high", k) > Iloc(df, "high", k - 1)

\* the signal window after a pullback at p
SignalWindow(p) == (p + 1) .. Min(p + SIGNAL_LOOKBACK, n - 1)

BreakoutSet(p) == {k \in SignalWindow(p) : BreaksOut(k)}

\* the call got past the length check
EnoughHistory == ~df.none /\ n >= W2 + 1

\* where the call stands
Returned == pc = "done"
CrossoverFinished == "crossover" \in stages /\ pc # "crossover"
PullbackFinished == "pullback" \in stages /\ pc # "pullback"
SignalFinished == "signal" \in stages /\ pc # "signal"

---------------------------------------------------------------------------
(* Claims *)

\* C1: for a series of n >= W2+1 bars the crossover search examines every
\* index from max(W2, n-L-1) to n-1, index W2 = 200 included.
C1_SearchCoversRange ==
    CrossoverFinished => examined = CrossoverRange

\* C1, what the code does: the search examines max(201, n-L-1) .. n-1 and so
\* never index 200.
C1_SearchAsCoded ==
    CrossoverFinished =>
        /\ examined = Max(W2 + 1, n - GC_LOOKBACK - 1) .. (n - 1)
        /\ W2 \notin examined

\* C2: the selected crossover satisfies the crossover test, no later index
\* does, and when several indices of the search range satisfy it the greatest
\* of them is the one selected.
C2_LastCrossoverSelected ==
    CrossoverFinished =>
        /\ gc_idx # None =>
              /\ gc_idx \in CrossoverRange
              /\ Qualifies(gc_idx)
              /\ \A k \in (gc_idx + 1) .. (n - 1) : ~Qualifies(k)
        /\ Cardinality(QualifyingSet) >= 2 => gc_idx = Greatest(QualifyingSet)

\* C2 witness: the loop met two qualifying crossovers and then an index with
\* an absent statistic, and holds the later crossover.
C2_Witness ==
    /\ CrossoverFinished
    /\ Cardinality(QualifyingSet \cap examined) >= 2
    /\ \E k \in examined : ~Defined(price_ma20(df, k))
    /\ gc_idx = Greatest(QualifyingSet)

RuleCrossover == IF QualifyingSet = {} THEN None ELSE Greatest(QualifyingSet)
RulePullback ==
    IF RuleCrossover = None \/ TouchSet(RuleCrossover) = {} THEN None
    ELSE Least(TouchSet(RuleCrossover))
RuleSignal ==
    IF RulePullback = None \/ BreakoutSet(RulePullback) = {} THEN None
    ELSE Least(BreakoutSet(RulePullback))

\* C5: when the three stage rules select a crossover c, a pullback p and a
\* signal s, the call returns a pullback summary with the dates of c, p and s
\* (for the 210-bar example: 200, 204, 206).
C5_EndToEnd ==
    (Returned /\ EnoughHistory /\ RuleSignal # None) =>
        /\ result.kind = "dict"
        /\ result.pullback.gc_date = DateAt(df, RuleCrossover)
        /\ result.pullback.pullback_date = DateAt(df, RulePullback)
        /\ result.pullback.signal_date = DateAt(df, RuleSignal)

\* the volume-ratio condition of section 4.4 on the last bar
VolumeRatioHolds ==
    /\ Defined(RollingMean(df, "volume", V0, n - 1))
    /\ Defined(vol_ma20(df, n - 1))
    /\ vol_ma20(df, n - 1) > 0
    /\ RollingMean(df, "volume", V0, n - 1) > vol_ma20(df, n - 1)

\* C6: on every scan of a series with enough history the result carries the
\* volume-ratio sub-result exactly when the volume-ratio condition holds on
\* the last bar, whatever the crossover, pullback and signal searches found.
C6_VolumeRatioIndependent ==
    (Returned /\ EnoughHistory) =>
        (VolumeRatioHolds <=> (result.kind = "dict" /\ result.vol_gc # None))

\* C7: whenever a crossover is selected the result carries a price-crossover
\* summary with that crossover's date, also without a pullback or a signal.
C7_PriceCrossoverIndependent ==
    (Returned /\ gc_idx # None) =>
        (result.kind = "dict" /\ result.price_gc = DateAt(df, gc_idx))

\* C8: without a qualifying crossover the pullback and signal searches are
\* never entered, no bar is read for them, and the call returns absence.
C8_PullbackGated ==
    (CrossoverFinished /\ gc_idx = None) =>
        /\ stages = {"crossover"}
        /\ pullback_idx = None /\ signal_idx = None
        /\ reads \subseteq UNION {{k - 1, k} : k \in examined}
        /\ Returned
        /\ result.kind = "None" /\ result.pullback = NoPullback

\* C8 witness: the crossover loop ran over a non-empty range, found nothing,
\* and the call has returned.
C8_Witness ==
    /\ CrossoverFinished /\ gc_idx = None
    /\ Cardinality(examined) >= 2
    /\ Returned /\ result.kind = "None"

\* C9: every position read lies in 0..n-1, and a crossover so late that its
\* pullback window starts past the last bar gives an absent pullback, as a
\* value.
C9_WindowsClamped ==
    /\ reads \subseteq 0 .. (n - 1)
    /\ result.error # "IndexError"
    /\ (Returned /\ gc_idx # None /\ gc_idx + PULLBACK_MIN > n - 1) =>
          /\ pullback_idx = None
          /\ result.kind = "None"

\* C9 witness: the crossover is at n-2, the pullback search was entered and
\* the call returned absence.
C9_Witness ==
    /\ Returned /\ gc_idx # None /\ gc_idx = n - 2
    /\ "pullback" \in stages
    /\ result.kind = "None"

\* C10: a missing series or one of fewer than W2+1 bars returns absence
\* without any search being entered or any bar read, and a series of exactly
\* W2+1 bars passes the length check.
C10_ShortHistory ==
    /\ (Returned /\ (df.none \/ n < W2 + 1)) =>
          /\ result.kind = "None"
          /\ result.price_gc = None /\ result.pullback = NoPullback
          /\ stages = {} /\ reads = {}
    /\ (pc # "enter" /\ ~df.none /\ n = W2 + 1) => "crossover" \in stages

\* C10 witness: a series of exactly W2 bars was turned away.
C10_Witness ==
    /\ Returned /\ ~df.none /\ n = W2
    /\ result.kind = "None" /\ stages = {}

\* some sub-result is populated by the rules of section 4.4: a crossover was
\* selected, a signal was found, or the volume-ratio condition holds
SomePopulated == gc_idx # None \/ signal_idx # None \/ VolumeRatioHolds

\* C11: a call on a series with enough history returns absence exactly when
\* none of the three sub-results is populated, and otherwise returns a result
\* that carries the last close.
C11_AbsenceIffNothingPopulated ==
    (Returned /\ EnoughHistory) =>
        IF SomePopulated
        THEN result.kind = "dict" /\ result.close = Iloc(df, "close", n - 1)
        ELSE result.kind = "None"

\* C12: a reported signal is "today" exactly when its index is n-1, and
\* otherwise "historic" and tagged with the date of the signal bar.
C12_SignalKind ==
    (Returned /\ result.kind = "dict" /\ result.pullback # NoPullback) =>
        /\ signal_idx # None
        /\ result.pullback.signal_type = "today" <=> signal_idx = n - 1
        /\ signal_idx # n - 1 =>
              /\ result.pullback.signal_type = "historic"
              /\ result.pullback.signal_tag = DateAt(df, signal_idx)

\* C12 witness: a result whose signal is the last bar and is reported "today".
C12_Witness ==
    /\ Returned /\ result.kind = "dict"
    /\ signal_idx = n - 1
    /\ result.pullback.signal_type = "today"

\* the dates of the series are strictly ascending
DatesAscending(d) ==
    \A k \in 1 .. (Len0(d) - 1) : DateAt(d, k - 1) < DateAt(d, k)

Statistics ==
    {<< "price_ma20", "close", W1 >>, << "price_ma200", "close", W2 >>,
     << "vol_ma20", "volume", W1 >>, << "vol_ma200", "volume", W2 >>,
     << "vol_ma5", "volume", V0 >>}

RECURSIVE FieldSum(_, _, _, _)
\* the sum of field f over bars lo..hi, bar by bar
FieldSum(d, f, lo, hi) ==
    IF lo = hi THEN Iloc(d, f, lo)
    ELSE LET mid == (lo + hi) \div 2
         IN  FieldSum(d, f, lo, mid) + FieldSum(d, f, mid + 1, hi)

\* every bar of lo..hi has a value of field f
AllPresent(d, f, lo, hi) == \A j \in lo .. hi : Defined(Iloc(d, f, j))

\* C13: a statistic at index k is absent while k + 1 < window, is the
\* arithmetic mean of its field over the bars k-window+1 .. k when they all
\* have a value (kept times W2), and is what a computation on the series
\* extended by further bars gives at k.
C13_MeanAndNoLookAhead ==
    \A k \in 0 .. (Len(stats) - 1) : \A st \in Statistics :
        LET value == stats[k + 1][st[1]]
            f == st[2]
            w == st[3]
        IN  /\ k + 1 < w => ~Defined(value)
            /\ (k + 1 >= w /\ AllPresent(df, f, k - w + 1, k)) =>
                  /\ Defined(value)
                  /\ value * w = W2 * FieldSum(df, f, k - w + 1, k)
            /\ value = IndicatorAt(df, k)[st[1]]

\* C13 witness: the indicator set was computed, bars were appended after it,
\* and it holds a defined 200-bar mean next to absent ones.
C13_Witness ==
    /\ Len(stats) >= W2 + 1
    /\ Len0(df) > Len(stats)
    /\ Defined(stats[W2 + 1].price_ma200) /\ Defined(stats[W2 + 1].vol_ma5)
    /\ ~Defined(stats[W2 - 1].price_ma200) /\ ~Defined(stats[V0 - 1].vol_ma5)
    /\ Iloc(df, "close", W2) # Iloc(df, "close", 0)

\* the instruments of the markets listed so far, up to the one in work
Expected(P) ==
    LET done(m) == [k \in 1 .. Len(P.listing[m]) |-> << m, P.listing[m][k] >>]
    IN  IF P.lpc = "ticker"
        THEN (IF P.m = 1 THEN << >> ELSE done(1)) \o SubSeq(done(P.m), 1, P.i - 1)
        ELSE IF P.lpc = "market" /\ P.m = 1 THEN << >>
        ELSE IF P.lpc = "market" THEN done(1)
        ELSE done(1) \o done(2)

\* C14: whatever happens to one instrument (no data, an exception of
\* get_ohlcv, of scan_strategy or of the listing lookup) the run is not
\* aborted: the instruments visited are those of the market lists, each once
\* and in order, and a run that ends by itself has visited all of them.
C14_FailureNeverAborts ==
    /\ scanner.lpc \in {"market", "ticker", "summary", "exited"} =>
          scanner.visited = Expected(scanner)
    /\ scanner.lpc = "crashed" =>
          /\ scanner.listing[scanner.m] = << >>
          /\ scanner.out[Len(scanner.out) - 1] =
                ListingLine(Markets[scanner.m], scanner.top_n)

\* C14 witness: a run that ended by itself after the work on at least two
\* of its instruments failed, with an instrument in each market.
C14_Witness ==
    /\ scanner.lpc = "exited"
    /\ scanner.failed >= 2
    /\ scanner.listing[1] # << >> /\ scanner.listing[2] # << >>
    /\ Len(scanner.visited) > scanner.failed

\* the progress signals among the lines printed so far, as positions
IsProgressLine(line) == Len(line) = 15 /\ line[9] = Lit("sinho")
IsFoundLine(line) == line[1] = Lit("!!!FOUND_JSON!!!")
ProgressAt(P) == {p \in 1 .. Len(P.out) : IsProgressLine(P.out[p])}
\* the running count carried by the last progress signal before position p
CountBefore(P, p) ==
    LET earlier == {q \in ProgressAt(P) : q < p}
    IN  IF earlier = {} THEN 0 ELSE P.out[Greatest(earlier)][10].v

\* C16: there is one progress signal per processed instrument, printed after
\* the work on it; the k-th carries the market, the 1-based index and the
\* list length of the k-th visited instrument and the running count; the
\* count never decreases and is one more than before exactly when the line
\* in front of the signal is the found item of that instrument.
C16_OneProgressPerInstrument ==
    LET P == scanner
        pos == ProgressAt(P)
    IN  /\ Cardinality(pos) = Len(P.visited)
        /\ \A p \in pos :
              LET k == Cardinality({q \in pos : q <= p})
                  line == P.out[p]
                  m == P.visited[k][1]
                  code == P.visited[k][2]
                  found == p > 1 /\ P.out[p - 1] = FoundLine(Markets[m], code)
              IN  /\ line[2] = Lit(Markets[m])
                  /\ line[7].v = Len(P.listing[m])
                  /\ line[5].v >= 1 /\ line[5].v <= line[7].v
                  /\ P.listing[m][line[5].v] = code
                  /\ line[5].v = (IF k > 1 /\ P.visited[k - 1][1] = m
                                  THEN P.out[Greatest({q \in pos : q < p})][5].v + 1
                                  ELSE 1)
                  /\ line[10].v >= CountBefore(P, p)
                  /\ line[10].v = CountBefore(P, p) + (IF found THEN 1 ELSE 0)
        /\ \A p \in 1 .. Len(P.out) :
              IsFoundLine(P.out[p]) => (p + 1) \in pos
        /\ P.lpc \in {"summary", "exited"} =>
              Cardinality(pos) = Len(P.listing[1]) + Len(P.listing[2])

\* C16 witness: a finished run over both markets in which the count rose on
\* one instrument and stayed on another.
C16_Witness ==
    /\ scanner.lpc = "exited"
    /\ scanner.total_found_cnt >= 1
    /\ Len(scanner.visited) > scanner.total_found_cnt
    /\ scanner.signals[2] >= 1
    /\ Len(scanner.listing[1]) >= 1

IsPrefix(a, b) == Len(a) <= Len(b) /\ SubSeq(b, 1, Len(a)) = a

WeightedProgress(market, idx, total) ==
    (IF market = "KOSPI" THEN 0 ELSE PROGRESS_HALF) + (PROGRESS_HALF * idx) \div total

\* C18: once the reader has taken in the progress line of instrument i with
\* count k, signals_found of the target is k and its progress is the
\* market-weighted percentage.
C18_ProgressLineRecognised ==
    \A k \in DOMAIN runs :
        LET line == runs[k].last_line
        IN  (Len(runs) = 1 /\ IsProgressLine(line)) =>
               /\ scan_state[runs[k].target].signals_found = line[10].v
               /\ scan_state[runs[k].target].progress =
                     WeightedProgress(line[2].s, line[5].v, line[7].v)

\* the reader does recognise the line its own comment describes
C18_CommentedLineRecognised ==
    /\ PatternSearch(CommentedProgressLine(250, 500, 500, 4)) =
          [matched |-> TRUE, current_cnt |-> 250, total_cnt |-> 500,
           raw_pct |-> 500, sigs |-> 4]
    /\ \A k \in DOMAIN runs : runs[k].pipe # << >> =>
          ~PatternSearch(Head(runs[k].pipe)).matched

\* the runs of a target that are between their first line and their finally
ActiveRuns(t) ==
    {k \in DOMAIN runs : runs[k].target = t
                         /\ runs[k].tpc \in {"popen", "read", "finally"}}

\* C19: for each target at most one scanner run is active at any time.
C19_OneRunPerTarget ==
    \A t \in Targets : Cardinality(ActiveRuns(t)) <= 1

\* C20: already with a single run of a target: once the run has ended
\* is_running is false; if a stop was accepted for it (the stopped flag is
\* set) the state carries the stop text and a progress that is not 100; and
\* progress 100 with the completion text belongs to a run that was not
\* stopped.
C20_StopOutcome ==
    \A t \in Targets :
        (Len(runs) = 1 /\ runs[1].target = t /\ runs[1].tpc = "finished") =>
            /\ ~scan_state[t].is_running
            /\ scan_state[t].stopped =>
                  /\ scan_state[t].message = MsgStopped
                  /\ scan_state[t].progress # PROGRESS_FULL
            /\ scan_state[t].message = MsgCompleted => ~scan_state[t].stopped

----------------------------------------------------------------------------
(* The price file across calls of get_ohlcv *)

\* the last call that touched the file was get_ohlcv
AfterGetOhlcv == call.fn = "get_ohlcv"

\* every bar the file held before the call is in it after the call
KeepsBars ==
    \A k \in 1 .. Len(call.before.rows) :
        \E j \in 1 .. Len(file.rows) : file.rows[j] = call.before.rows[k]

\* the days of the file ascend strictly
FileAscending ==
    \A j \in 1 .. Len(file.rows) - 1 : file.rows[j] < file.rows[j + 1]

\* the call asked for nothing later than the last day the file held
Covered ==
    /\ call.before.exists
    /\ call.before.rows # << >>
    /\ call.end <= LastDate(call.before.rows)

\* the call sent no request and returned the file's bars of [start, end]
ServedFromFile ==
    /\ call.fetches = << >>
    /\ call.returned =
           Answer("frame", Slice(call.before.rows, call.start, call.end))

\* C21: after any call of get_ohlcv the file still holds every bar it held
\* before the call, its days ascend strictly without duplicates, and a call
\* whose end day is not later than the last day of the file sends no request
\* to the exchange and returns the file's bars within [start, end].
C21_CacheOnlyGrows ==
    AfterGetOhlcv =>
        /\ KeepsBars
        /\ FileAscending
        /\ Covered => ServedFromFile

===========================================================================
